---- MODULE Spec2Model ----
(***************************************************************************)
(* OpenImagesMetric (mmdet/evaluation/metrics/openimages_metric.py): the   *)
(* wrapper of mmeval.OIDMeanAP that parses data samples into predictions   *)
(* and ground truths (process) and renders the per-class tables and the    *)
(* flattened result mapping (evaluate).                                    *)
(*                                                                         *)
(* Numbers: thresholds are in hundredths (50 is 0.5), metric values are in *)
(* ten-thousandths (6667 is 0.6667) and values rounded to 3 decimals are   *)
(* in thousandths (667 is 0.667).                                          *)
(***************************************************************************)
EXTENDS Integers, Sequences, FiniteSets, TLC

VARIABLES
    ctorKwargs,      \* the **kwargs the instance was constructed with
    engineKwargs,    \* the keyword arguments handed to OIDMeanAP.__init__
    warned,          \* the warnings emitted by __init__, in order
    dataset_meta,    \* self.dataset_meta
    results,         \* self._results, the engine's accumulation buffer
    accepted,        \* samples of the process calls that returned since the last evaluate call
    op,              \* the latest call: "none", "process" or "evaluate"; what follows
                     \* is what that call did, and is blank for the other operation
    outcome,         \* its outcome: "none", "running", "returned" or "raised"
    batch,           \* data_samples of the latest process call
    addCalls,        \* the arguments of every self.add made by the latest process call
    pc,              \* the statement of evaluate to run next, "idle" outside evaluate
    prevOp,          \* the call that preceded the latest evaluate call
    computedOver,    \* the buffer contents self.compute ran over in the latest evaluate call
    rawResults,      \* what self.compute returned in the latest evaluate call
    metric_results,  \* the local metric_results of evaluate
    classwise_result,\* the local classwise_result of evaluate
    trace,           \* the events of the latest evaluate call, in order
    log,             \* the tables print_log received in the latest evaluate call
    ret              \* the value returned by the latest call

vars == <<ctorKwargs, engineKwargs, warned, dataset_meta, results, accepted, op,
          outcome, batch, addCalls, pc, prevOp, computedOver, rawResults, metric_results,
          classwise_result, trace, log, ret>>

ctorVars == <<ctorKwargs, engineKwargs, warned, dataset_meta>>

-----------------------------------------------------------------------------
(* Bounds *)

MaxBatch == 2      \* longest data_samples sequence given to process
MaxResults == 3    \* most samples accumulated before evaluate must run

-----------------------------------------------------------------------------
(* Python values *)

PyNone == [type |-> "NoneType"]
PyList(s) == [type |-> "list", items |-> s]
PyStr(s) == [type |-> "str", value |-> s]
Tensor(v) == [type |-> "Tensor", device |-> "cuda", data |-> v]

\* Tensor.cpu().numpy(): the same numbers as a host ndarray.
CpuNumpy(t) == [type |-> "ndarray", data |-> t.data]

Min(a, b) == IF a <= b THEN a ELSE b

\* dict.pop(key, None) and dict.get(key, None): the value looked up.
GetOrNone(d, key) == IF key \in DOMAIN d THEN d[key] ELSE PyNone

\* dict.pop(key, None): the dict that is left.
Without(d, key) == [k \in DOMAIN d \ {key} |-> d[k]]

\* d[key] = value on a dict.
With(d, key, value) == [k \in DOMAIN d \cup {key} |-> IF k = key THEN value ELSE d[k]]

-----------------------------------------------------------------------------
(* __init__ *)

EmptyDict == [k \in {} |-> PyNone]

IoaWarning == "ioa_thrs is deprecated, use iof_thrs"
CollectDeviceWarning == "collect_device is deprecated, use dist_backend"

\* AliasIoa with ioa_thrs read by get instead of pop, so that it stays in kwargs.
AliasIoaNotPopped(kwargs) ==
    LET ioa_thrs == GetOrNone(kwargs, "ioa_thrs")
    IN  IF ioa_thrs # PyNone /\ "iof_thrs" \notin DOMAIN kwargs
        THEN With(kwargs, "iof_thrs", ioa_thrs)
        ELSE kwargs

\* Lines 32-34: ioa_thrs is popped; it becomes iof_thrs when iof_thrs is absent.
AliasIoa(kwargs) ==
    LET ioa_thrs == GetOrNone(kwargs, "ioa_thrs")
        rest == Without(kwargs, "ioa_thrs")
    IN  IF ioa_thrs # PyNone /\ "iof_thrs" \notin DOMAIN rest
        THEN With(rest, "iof_thrs", ioa_thrs)
        ELSE rest

\* Lines 33-37: the warning of the ioa_thrs alias.
IoaWarnings(kwargs) ==
    IF GetOrNone(kwargs, "ioa_thrs") # PyNone /\ "iof_thrs" \notin DOMAIN kwargs
    THEN <<IoaWarning>>
    ELSE <<>>

\* Lines 39-44: collect_device is popped and only warned about.
CollectDeviceWarnings(kwargs) ==
    IF GetOrNone(kwargs, "collect_device") # PyNone
    THEN <<CollectDeviceWarning>>
    ELSE <<>>

\* Lines 46-47: what super().__init__ receives besides dist_backend.
SuperInitKwargs(kwargs) ==
    With(Without(AliasIoa(kwargs), "collect_device"), "classwise_result", TRUE)

\* The engine's defaults: iou_thrs = iof_thrs = 0.5, one unrestricted scale range.
DefaultScaleRange == <<"None", "None">>
EngineDefault(key) ==
    IF key = "scale_ranges" THEN PyList(<<DefaultScaleRange>>) ELSE PyList(<<50>>)

\* self.iou_thrs, self.iof_thrs and self.scale_ranges of the constructed engine.
EngineAttr(ekw, key) ==
    LET v == GetOrNone(ekw, key)
    IN  IF v = PyNone THEN EngineDefault(key).items ELSE v.items

\* The engine's constructor accepts threshold lists of one length only.
EngineAccepts(ekw) ==
    Len(EngineAttr(ekw, "iou_thrs")) = Len(EngineAttr(ekw, "iof_thrs"))

\* The keyword arguments offered to the constructor.
KwargOptions(key) ==
    CASE key = "iou_thrs" -> {PyList(<<50, 75>>)}
      [] key = "iof_thrs" -> {PyList(<<40>>), PyList(<<40, 60>>)}
      [] key = "ioa_thrs" -> {PyNone, PyList(<<30>>), PyList(<<30, 70>>)}
      [] key = "collect_device" -> {PyStr("cpu")}
      [] key = "scale_ranges" -> {PyList(<<DefaultScaleRange, <<"0", "128">>>>)}

Absent == [type |-> "absent"]
Given(key) == KwargOptions(key) \cup {Absent}

\* The dict of the keyword arguments that were given.
KwargDict(full) == [k \in {key \in DOMAIN full : full[key] # Absent} |-> full[k]]

KwargDicts ==
    {KwargDict([iou_thrs |-> iou, iof_thrs |-> iof, ioa_thrs |-> ioa,
                collect_device |-> dev, scale_ranges |-> sr]) :
        iou \in Given("iou_thrs"), iof \in Given("iof_thrs"), ioa \in Given("ioa_thrs"),
        dev \in Given("collect_device"), sr \in Given("scale_ranges")}

\* Every construction the engine accepts.
AcceptedKwargDicts == {d \in KwargDicts : EngineAccepts(SuperInitKwargs(d))}

\* The constructions whose instances are followed through process and evaluate:
\* the defaults, the deprecated options alone, and two thresholds with two scale
\* ranges, given by the current and by the deprecated option.
CtorChoices ==
    {d \in AcceptedKwargDicts :
        \/ DOMAIN d = {}
        \/ DOMAIN d = {"ioa_thrs", "collect_device"} /\ d["ioa_thrs"] # PyNone
        \/ DOMAIN d = {"iou_thrs", "iof_thrs", "scale_ranges"}
        \/ DOMAIN d = {"iou_thrs", "ioa_thrs", "scale_ranges"}}

CLASSES == <<"cat", "dog">>
DatasetMetas == {[CLASSES |-> CLASSES], [classes |-> CLASSES]}

-----------------------------------------------------------------------------
(* Data samples *)

PredInstances(n) ==
    [bboxes |-> Tensor(<<n, n, n + 10, n + 10>>),
     scores |-> Tensor(90 + n),
     labels |-> Tensor(n % 2)]

Instances(n) == <<[bbox |-> <<n, n, n + 10, n + 10>>, bbox_label |-> n % 2]>>

Sample1 == [pred_instances |-> PredInstances(1), instances |-> Instances(1)]
Sample2 == [pred_instances |-> PredInstances(2), instances |-> Instances(2),
            image_level_labels |-> PyList(<<0>>)]
SampleNoPred == [instances |-> Instances(3)]
SampleNoInstances == [pred_instances |-> PredInstances(4)]

DataSamples == {Sample1, Sample2, SampleNoPred, SampleNoInstances}

RECURSIVE SeqsUpTo(_, _)
SeqsUpTo(S, n) ==
    IF n = 0 THEN {<<>>}
    ELSE LET shorter == SeqsUpTo(S, n - 1)
         IN  shorter \cup {Append(s, x) : s \in {t \in shorter : Len(t) = n - 1}, x \in S}

Batches == SeqsUpTo(DataSamples, MaxBatch)

-----------------------------------------------------------------------------
(* process *)

\* Lines 64-71 and 74-78 raise KeyError on a sample without these keys.
Converts(data_sample) ==
    /\ "pred_instances" \in DOMAIN data_sample
    /\ "instances" \in DOMAIN data_sample

\* Lines 64-71.
ToPred(data_sample) ==
    [bboxes |-> CpuNumpy(data_sample["pred_instances"].bboxes),
     scores |-> CpuNumpy(data_sample["pred_instances"].scores),
     labels |-> CpuNumpy(data_sample["pred_instances"].labels)]

\* Lines 74-78.
ToGt(data_sample) ==
    [instances |-> data_sample["instances"],
     image_level_labels |-> GetOrNone(data_sample, "image_level_labels")]

\* The number of samples the loop of lines 63-79 converts before one raises.
RECURSIVE ConvertedPrefix(_)
ConvertedPrefix(data_samples) ==
    IF data_samples = <<>> \/ ~Converts(Head(data_samples)) THEN 0
    ELSE 1 + ConvertedPrefix(Tail(data_samples))

\* OIDMeanAP.add: one (prediction, groundtruth) pair per image is appended.
EngineAdd(buffer, predictions, groundtruths) ==
    buffer \o [n \in 1..Min(Len(predictions), Len(groundtruths)) |->
                  <<predictions[n], groundtruths[n]>>]

\* AddCallsOf with self.add inside the loop, once per converted sample.
AddCallsPerSample(data_samples) ==
    [n \in 1..ConvertedPrefix(data_samples) |->
        [predictions |-> <<ToPred(data_samples[n])>>,
         groundtruths |-> <<ToGt(data_samples[n])>>]]

\* AddCallsOf with each ground truth inserted at the front of groundtruths.
AddCallsGtPrepended(data_samples) ==
    IF ConvertedPrefix(data_samples) < Len(data_samples) THEN <<>>
    ELSE <<[predictions |-> [n \in 1..Len(data_samples) |-> ToPred(data_samples[n])],
            groundtruths |-> [n \in 1..Len(data_samples) |->
                                ToGt(data_samples[Len(data_samples) + 1 - n])]]>>

\* The self.add calls of one process call: lines 62-81 build both lists over the
\* whole batch and call add once, after the loop; no call when a sample raised.
AddCallsOf(data_samples) ==
    IF ConvertedPrefix(data_samples) < Len(data_samples) THEN <<>>
    ELSE <<[predictions |-> [n \in 1..Len(data_samples) |-> ToPred(data_samples[n])],
            groundtruths |-> [n \in 1..Len(data_samples) |-> ToGt(data_samples[n])]]>>

RECURSIVE ApplyAdds(_, _)
ApplyAdds(buffer, calls) ==
    IF calls = <<>> THEN buffer
    ELSE ApplyAdds(EngineAdd(buffer, Head(calls).predictions, Head(calls).groundtruths),
                   Tail(calls))

\* process(data_batch, data_samples), lines 51-81.
Process ==
    /\ pc = "idle"
    /\ \E data_samples \in Batches :
        /\ Len(results) + Len(data_samples) <= MaxResults
        /\ LET raised == ConvertedPrefix(data_samples) < Len(data_samples)
               calls == AddCallsOf(data_samples)
           IN  /\ batch' = data_samples
               /\ addCalls' = calls
               /\ results' = ApplyAdds(results, calls)
               /\ outcome' = IF raised THEN "raised" ELSE "returned"
               /\ accepted' = IF raised THEN accepted ELSE accepted \o data_samples
    /\ op' = "process"
    /\ ret' = PyNone
    /\ prevOp' = "none"
    /\ computedOver' = <<>>
    /\ rawResults' = EmptyDict
    /\ metric_results' = EmptyDict
    /\ classwise_result' = <<>>
    /\ trace' = <<>>
    /\ log' = <<>>
    /\ UNCHANGED <<ctorVars, pc>>

-----------------------------------------------------------------------------
(* The engine's compute and reset *)

iou_thrs == EngineAttr(engineKwargs, "iou_thrs")
iof_thrs == EngineAttr(engineKwargs, "iof_thrs")
scale_ranges == EngineAttr(engineKwargs, "scale_ranges")

\* The (threshold, scale range) index pairs of the engine's arrays, from 1.
Cells == (1..Len(iou_thrs)) \X (1..Len(scale_ranges))

\* One class's entry of classwise_result, for each way a class can come out:
\* no ground truth, every ground truth found, ground truths with no detection,
\* ground truths in the first scale range only and partly found.
ClassOutcomes == {"absent", "perfect", "missed", "partial"}

ClassResult(kind) ==
    [num_gts |-> [c \in Cells |->
                    CASE kind = "absent" -> 0
                      [] kind = "perfect" -> 1
                      [] kind = "missed" -> 1
                      [] kind = "partial" -> IF c[2] = 1 THEN 3 ELSE 0],
     num_dets |-> CASE kind = "absent" -> 0
                    [] kind = "perfect" -> 1
                    [] kind = "missed" -> 0
                    [] kind = "partial" -> 2,
     recalls |-> [c \in Cells |->
                    CASE kind = "absent" -> <<>>
                      [] kind = "perfect" -> <<10000>>
                      [] kind = "missed" -> <<>>
                      [] kind = "partial" ->
                            IF c[2] # 1 THEN <<>>
                            ELSE IF c[1] = 1 THEN <<3333, 6667>> ELSE <<3333>>],
     ap |-> [c \in Cells |->
                    CASE kind = "absent" -> 0
                      [] kind = "perfect" -> 10000
                      [] kind = "missed" -> 0
                      [] kind = "partial" ->
                            IF c[2] # 1 THEN 0
                            ELSE IF c[1] = 1 THEN 5556 ELSE 2222]]

\* The aggregate metrics of a compute result.
ScalarResults ==
    {[k \in {"mAP"} |-> 6667],
     [k \in {"mAP", "mAP@0.5"} |-> IF k = "mAP" THEN 1234 ELSE 10000]}

\* OIDMeanAP.compute: the aggregate metrics and, as the instance is built with
\* classwise_result=True, one entry per class under "classwise_result".
ComputeResults ==
    {With(scalars, "classwise_result", [k \in 1..Len(CLASSES) |-> ClassResult(kinds[k])]) :
        scalars \in ScalarResults, kinds \in [1..Len(CLASSES) -> ClassOutcomes]}

\* OIDMeanAP.reset: the accumulation buffer is cleared.
EngineReset(buffer) == <<>>

-----------------------------------------------------------------------------
(* evaluate: formatting *)

\* round(x, 3) and f'{x:.3f}' of the exact value num/den ten-thousandths, in
\* thousandths: the nearest, and the even one of two equally near.
RoundHalfEven(num, den) ==
    LET q == num \div den
        r == num % den
    IN  IF 2 * r < den THEN q
        ELSE IF 2 * r > den THEN q + 1
        ELSE IF q % 2 = 0 THEN q ELSE q + 1

Round3(v) == RoundHalfEven(v, 10)

\* str(float) of a threshold in hundredths below 1: 50 is "0.5", 75 is "0.75".
StrFloat(h) ==
    "0." \o (IF h % 10 = 0 THEN ToString(h \div 10)
             ELSE IF h < 10 THEN "0" \o ToString(h) ELSE ToString(h))

\* str(tuple) of a scale range.
StrRange(scale_range) == "(" \o scale_range[1] \o ", " \o scale_range[2] \o ")"

\* f'{x:.3f}' of a value in thousandths.
Format3f(q) ==
    LET frac == q % 1000
    IN  ToString(q \div 1000) \o "." \o
        (IF frac < 10 THEN "00" ELSE IF frac < 100 THEN "0" ELSE "") \o ToString(frac)

\* TableTitle without the test of line 102.
TableTitleAlways(i, j) ==
    " IoU thr: " \o StrFloat(iou_thrs[i]) \o " IoF thr: " \o StrFloat(iof_thrs[i]) \o " "
        \o "Scale range: " \o StrRange(scale_ranges[j]) \o " "

\* Lines 101-103.
TableTitle(i, j) ==
    " IoU thr: " \o StrFloat(iou_thrs[i]) \o " IoF thr: " \o StrFloat(iof_thrs[i]) \o " "
        \o (IF scale_ranges[j] # DefaultScaleRange
            THEN "Scale range: " \o StrRange(scale_ranges[j]) \o " "
            ELSE "")

header == <<"class", "gts", "dets", "recall", "ap">>

\* Lines 108-116: the row of class k.
RowData(cw, classes, k, i, j) ==
    LET class_results == cw[k]
        recalls == class_results.recalls[<<i, j>>]
        recall == IF Len(recalls) = 0 THEN 0 ELSE recalls[Len(recalls)]
    IN  <<classes[k], class_results.num_gts[<<i, j>>], class_results.num_dets,
          Round3(recall), Round3(class_results.ap[<<i, j>>])>>

\* Aps without the test of line 118.
RECURSIVE ApsAllClasses(_, _, _, _)
ApsAllClasses(cw, n, i, j) ==
    IF n = 0 THEN <<>>
    ELSE Append(ApsAllClasses(cw, n - 1, i, j), cw[n].ap[<<i, j>>])

\* Lines 106, 118-119: aps once the first n classes have been visited.
RECURSIVE Aps(_, _, _, _)
Aps(cw, n, i, j) ==
    IF n = 0 THEN <<>>
    ELSE IF cw[n].num_gts[<<i, j>>] > 0
         THEN Append(Aps(cw, n - 1, i, j), cw[n].ap[<<i, j>>])
         ELSE Aps(cw, n - 1, i, j)

RECURSIVE SumSeq(_)
SumSeq(s) == IF s = <<>> THEN 0 ELSE Head(s) + SumSeq(Tail(s))

\* Lines 121-122: the last row.
MeanApRow(aps) ==
    LET mean_ap == IF aps # <<>> THEN RoundHalfEven(SumSeq(aps), 10 * Len(aps)) ELSE 0
    IN  <<"mAP", "", "", "", Format3f(mean_ap)>>

\* Lines 101-124: the table of threshold i and scale range j.
Table(cw, classes, i, j) ==
    [title |-> TableTitle(i, j),
     table_data |-> <<header>> \o [k \in 1..Len(classes) |-> RowData(cw, classes, k, i, j)]
                       \o <<MeanApRow(Aps(cw, Len(classes), i, j))>>,
     inner_footing_row_border |-> TRUE]

\* zip(self.iou_thrs, self.iof_thrs) stops at the shorter list.
NumThrs == Min(Len(iou_thrs), Len(iof_thrs))
NumTables == NumThrs * Len(scale_ranges)

\* LoopIndex with the two loops nested the other way round.
LoopIndexScaleOuter(n) ==
    <<((n - 1) % NumThrs) + 1, ((n - 1) \div NumThrs) + 1>>

\* The (i, j) of the n-th table of the nested loops of lines 97-100, from 1.
LoopIndex(n) ==
    <<((n - 1) \div Len(scale_ranges)) + 1, ((n - 1) % Len(scale_ranges)) + 1>>

\* Flatten with the values cut to 3 decimals instead of rounded.
FlattenTruncated(results_dict) ==
    [pk \in {"openimages/" \o k : k \in DOMAIN results_dict} |->
        results_dict[CHOOSE k \in DOMAIN results_dict : "openimages/" \o k = pk] \div 10]

\* Lines 127-130.
Flatten(results_dict) ==
    [pk \in {"openimages/" \o k : k \in DOMAIN results_dict} |->
        Round3(results_dict[CHOOSE k \in DOMAIN results_dict : "openimages/" \o k = pk])]

-----------------------------------------------------------------------------
(* evaluate, lines 83-131, statement by statement *)

\* EvaluateOrder with the reset moved behind the tables.
EvaluateOrderResetLast == <<"compute", "unpack", "tables", "reset", "return">>

\* The statements of evaluate in the order they run: compute (88), reset (89),
\* the unpacking of the result and of the class names (91-95), the tables
\* (97-125) and the flattened return (127-131).
EvaluateOrder == <<"compute", "reset", "unpack", "tables", "return">>

After(stage) ==
    EvaluateOrder[1 + CHOOSE n \in DOMAIN EvaluateOrder : EvaluateOrder[n] = stage]

\* Line 88: metric_results = self.compute(*args, **kwargs).
EvaluateCompute ==
    /\ pc = "idle"
    /\ \E computed \in ComputeResults :
        /\ rawResults' = computed
        /\ metric_results' = computed
    /\ computedOver' = results
    /\ prevOp' = op
    /\ op' = "evaluate"
    /\ outcome' = "running"
    /\ pc' = After("compute")
    /\ trace' = <<"compute">>
    /\ log' = <<>>
    /\ classwise_result' = <<>>
    /\ accepted' = <<>>
    /\ batch' = <<>>
    /\ addCalls' = <<>>
    /\ ret' = PyNone
    /\ UNCHANGED <<ctorVars, results>>

\* EvaluateReset without the call of self.reset.
EvaluateResetSkipped ==
    /\ pc = "reset"
    /\ trace' = Append(trace, "reset")
    /\ pc' = After("reset")
    /\ UNCHANGED <<ctorVars, results, accepted, op, outcome, batch, addCalls, prevOp,
                   computedOver, rawResults, metric_results, classwise_result, log, ret>>

\* Line 89: self.reset().
EvaluateReset ==
    /\ pc = "reset"
    /\ results' = EngineReset(results)
    /\ trace' = Append(trace, "reset")
    /\ pc' = After("reset")
    /\ UNCHANGED <<ctorVars, accepted, op, outcome, batch, addCalls, prevOp, computedOver,
                   rawResults, metric_results, classwise_result, log, ret>>

\* Lines 91-95; dataset_meta['CLASSES'] raises KeyError when the key is not there.
EvaluateUnpack ==
    /\ pc = "unpack"
    /\ classwise_result' = metric_results["classwise_result"]
    /\ metric_results' = Without(metric_results, "classwise_result")
    /\ IF "CLASSES" \in DOMAIN dataset_meta
       THEN /\ pc' = After("unpack")
            /\ UNCHANGED <<outcome, trace>>
       ELSE /\ pc' = "idle"
            /\ outcome' = "raised"
            /\ trace' = Append(trace, "raise")
    /\ UNCHANGED <<ctorVars, results, accepted, op, batch, addCalls, prevOp, computedOver,
                   rawResults, log, ret>>

\* Lines 97-125: one pass of the inner loop body, ending in print_log.
EvaluateTable ==
    /\ pc = "tables"
    /\ Len(log) < NumTables
    /\ LET ij == LoopIndex(Len(log) + 1)
       IN  log' = Append(log, Table(classwise_result, dataset_meta["CLASSES"], ij[1], ij[2]))
    /\ trace' = Append(trace, "table")
    /\ pc' = IF Len(log) + 1 = NumTables THEN After("tables") ELSE pc
    /\ UNCHANGED <<ctorVars, results, accepted, op, outcome, batch, addCalls, prevOp,
                   computedOver, rawResults, metric_results, classwise_result, ret>>

\* Lines 127-131.
EvaluateReturn ==
    /\ pc = "return"
    /\ ret' = Flatten(metric_results)
    /\ outcome' = "returned"
    /\ trace' = Append(trace, "return")
    /\ pc' = "idle"
    /\ UNCHANGED <<ctorVars, results, accepted, op, batch, addCalls, prevOp, computedOver,
                   rawResults, metric_results, classwise_result, log>>

-----------------------------------------------------------------------------

Init ==
    /\ ctorKwargs \in CtorChoices
    /\ engineKwargs = SuperInitKwargs(ctorKwargs)
    /\ warned = IoaWarnings(ctorKwargs) \o CollectDeviceWarnings(ctorKwargs)
    /\ dataset_meta \in DatasetMetas
    /\ results = <<>>
    /\ accepted = <<>>
    /\ op = "none"
    /\ outcome = "none"
    /\ batch = <<>>
    /\ addCalls = <<>>
    /\ pc = "idle"
    /\ prevOp = "none"
    /\ computedOver = <<>>
    /\ rawResults = EmptyDict
    /\ metric_results = EmptyDict
    /\ classwise_result = <<>>
    /\ trace = <<>>
    /\ log = <<>>
    /\ ret = PyNone

Next ==
    \/ Process
    \/ EvaluateCompute
    \/ EvaluateReset
    \/ EvaluateUnpack
    \/ EvaluateTable
    \/ EvaluateReturn

Spec == Init /\ [][Next]_vars

\* Every accepted construction, each followed through its process calls.
InitAnyCtor ==
    /\ ctorKwargs \in AcceptedKwargDicts
    /\ engineKwargs = SuperInitKwargs(ctorKwargs)
    /\ warned = IoaWarnings(ctorKwargs) \o CollectDeviceWarnings(ctorKwargs)
    /\ dataset_meta \in DatasetMetas
    /\ results = <<>>
    /\ accepted = <<>>
    /\ op = "none"
    /\ outcome = "none"
    /\ batch = <<>>
    /\ addCalls = <<>>
    /\ pc = "idle"
    /\ prevOp = "none"
    /\ computedOver = <<>>
    /\ rawResults = EmptyDict
    /\ metric_results = EmptyDict
    /\ classwise_result = <<>>
    /\ trace = <<>>
    /\ log = <<>>
    /\ ret = PyNone

NextIngest == Process

SpecCtor == InitAnyCtor /\ [][NextIngest]_vars

-----------------------------------------------------------------------------
(* Properties *)

Abs(x) == IF x < 0 THEN -x ELSE x

\* q thousandths is a value of v/n ten-thousandths rounded to 3 decimals.
IsRounded3(q, v, n) == Abs(10 * q * n - v) * 2 <= 10 * n

\* Whether string t occurs in string s.
Contains(s, t) ==
    \E a \in 1..(Len(s) - Len(t) + 1) : SubSeq(s, a, a + Len(t) - 1) = t

RECURSIVE SumOver(_, _)
SumOver(S, f) ==
    IF S = {} THEN 0
    ELSE LET x == CHOOSE x \in S : TRUE IN f[x] + SumOver(S \ {x}, f)

ClassIndexes == 1..Len(CLASSES)

\* The (threshold, scale range) pair whose table is the n-th of an evaluate call.
CellOfTable(n) ==
    CHOOSE c \in Cells : (c[1] - 1) * Len(scale_ranges) + c[2] = n

\* C1: between calls the accumulation buffer holds, in ingestion order, one
\* (prediction, ground truth) pair for every sample of the process calls that
\* returned since the latest evaluate call, and it is empty right after an
\* evaluate that returned.
C1_BufferHoldsRound ==
    pc = "idle" =>
        /\ Len(results) = Len(accepted)
        /\ \A n \in 1..Len(accepted) :
            /\ results[n][1].bboxes.data = accepted[n]["pred_instances"].bboxes.data
            /\ results[n][1].scores.data = accepted[n]["pred_instances"].scores.data
            /\ results[n][1].labels.data = accepted[n]["pred_instances"].labels.data
            /\ results[n][2].instances = accepted[n]["instances"]
        /\ (op = "evaluate" /\ outcome = "returned" => results = <<>>)

\* A second process call has returned and the buffer holds the samples of both.
C1_Witness ==
    /\ pc = "idle" /\ op = "process" /\ outcome = "returned"
    /\ batch # <<>>
    /\ Len(results) > Len(batch)

\* C2: a process call that returns has called add exactly once, with as many
\* predictions and as many ground truths as the batch has samples, the n-th of
\* each built from the n-th sample, and has returned None.
C2_AddGetsAlignedSequences ==
    (op = "process" /\ outcome = "returned") =>
        /\ Len(addCalls) = 1
        /\ Len(addCalls[1].predictions) = Len(batch)
        /\ Len(addCalls[1].groundtruths) = Len(batch)
        /\ \A n \in 1..Len(batch) :
            LET pred == addCalls[1].predictions[n]
                gt == addCalls[1].groundtruths[n]
                given == batch[n]["pred_instances"]
            IN  /\ pred.bboxes = [type |-> "ndarray", data |-> given.bboxes.data]
                /\ pred.scores = [type |-> "ndarray", data |-> given.scores.data]
                /\ pred.labels = [type |-> "ndarray", data |-> given.labels.data]
                /\ gt.instances = batch[n]["instances"]
                /\ gt.image_level_labels =
                        IF "image_level_labels" \in DOMAIN batch[n]
                        THEN batch[n]["image_level_labels"]
                        ELSE PyNone
        /\ ret = PyNone

\* A batch of two different samples has been processed.
C2_Witness ==
    /\ op = "process" /\ outcome = "returned"
    /\ Len(batch) = 2
    /\ batch[1] # batch[2]
    /\ Len(addCalls) = 1

\* C3 as stated: of two evaluate calls with no process call in between, both
\* compute over an empty accumulation.
C3_BothEvaluatesOverEmpty ==
    [][(pc = "idle" /\ op = "evaluate" /\ pc' # "idle")
            => (computedOver = <<>> /\ computedOver' = <<>>)]_vars

\* C3 amended: an evaluate call that directly follows another evaluate call
\* computes over an empty accumulation.
C3_SecondEvaluateOverEmpty ==
    [][(pc = "idle" /\ op = "evaluate" /\ pc' # "idle") => computedOver' = <<>>]_vars

\* The second of two evaluate calls in a row has returned.
C3_Witness ==
    /\ op = "evaluate" /\ prevOp = "evaluate" /\ outcome = "returned"
    /\ computedOver = <<>>

\* C4: the mapping evaluate returns has the key "openimages/" + k for every key
\* k of the compute result but classwise_result, no other key, and under each
\* key the raw value of k rounded to 3 decimals.
C4_FlattenedResult ==
    (op = "evaluate" /\ outcome = "returned") =>
        /\ "classwise_result" \in DOMAIN rawResults
        /\ DOMAIN ret = {"openimages/" \o k : k \in DOMAIN rawResults \ {"classwise_result"}}
        /\ \A k \in DOMAIN rawResults \ {"classwise_result"} :
                IsRounded3(ret["openimages/" \o k], rawResults[k], 1)

\* An evaluate has returned a mapping of two metrics.
C4_Witness ==
    /\ op = "evaluate" /\ outcome = "returned"
    /\ Cardinality(DOMAIN ret) = 2
    /\ "openimages/mAP@0.5" \in DOMAIN ret

\* C5: the mAP row of every table shows the mean of ap[i, j] over the classes
\* with num_gts[i, j] > 0, and 0 when there is no such class.
C5_MeanOverClassesWithGts ==
    \A n \in 1..Len(log) :
        LET c == CellOfTable(n)
            withGts == {k \in ClassIndexes : classwise_result[k].num_gts[c] > 0}
            total == SumOver(withGts, [k \in ClassIndexes |-> classwise_result[k].ap[c]])
            row == log[n].table_data[Len(log[n].table_data)]
        IN  /\ row[1] = "mAP"
            /\ IF withGts = {}
               THEN row[5] = "0.000"
               ELSE \E q \in 0..1000 :
                        /\ row[5] = Format3f(q)
                        /\ IsRounded3(q, total, Cardinality(withGts))

\* A table of one class with ground truths and a positive AP and one without.
C5_Witness ==
    \E n \in 1..Len(log) :
        LET c == CellOfTable(n)
        IN  /\ classwise_result[1].num_gts[c] > 0
            /\ classwise_result[1].ap[c] > 0
            /\ classwise_result[2].num_gts[c] = 0
            /\ log[n].table_data[Len(log[n].table_data)][5] # "0.000"

C8_TitleContents ==
    \A n \in 1..Len(log) :
        LET c == CellOfTable(n)
            title == log[n].title
        IN  /\ Contains(title, "IoU thr: " \o StrFloat(iou_thrs[c[1]]) \o " ")
            /\ Contains(title, "IoF thr: " \o StrFloat(iof_thrs[c[1]]) \o " ")
            /\ Contains(title, StrRange(scale_ranges[c[2]]))
                    <=> scale_ranges[c[2]] # DefaultScaleRange
            /\ Contains(title, "Scale range") <=> scale_ranges[c[2]] # DefaultScaleRange

\* One table of the unrestricted range and one of the range (0, 128) are logged.
C8_Witness ==
    /\ Len(log) >= 2
    /\ Contains(log[2].title, "Scale range: (0, 128) ")
    /\ ~Contains(log[1].title, "Scale range")
    /\ Contains(log[1].title, "IoU thr: 0.5 IoF thr: 0.4 ")

C10_ProcessAllOrNothing ==
    [][(pc' = "idle" /\ op' = "process") =>
            /\ (\E n \in 1..Len(batch') :
                    \/ "pred_instances" \notin DOMAIN batch'[n]
                    \/ "instances" \notin DOMAIN batch'[n]) <=> outcome' = "raised"
            /\ outcome' = "raised" => (results' = results /\ addCalls' = <<>>)]_vars

\* A batch whose second sample is malformed was refused on a non-empty buffer.
C10_Witness ==
    /\ op = "process" /\ outcome = "raised"
    /\ Len(batch) = 2
    /\ "pred_instances" \in DOMAIN batch[1] /\ "instances" \in DOMAIN batch[1]
    /\ results # <<>>

====
